---- MODULE Spec2Model ----
(***************************************************************************)
(* A model of stripe.py: the outline extractor that turns the styled text  *)
(* fragments of a paginated document into a title and a list of H1/H2/H3   *)
(* headings, and the batch driver that runs it over a directory.           *)
(*                                                                         *)
(* Representation.  A text is a sequence of characters, each character a   *)
(* string: "A", " ", "3", or "U+00C2" for a code point outside ASCII.  A   *)
(* font size is a whole number of hundredths of a point on the way in      *)
(* (span["size"]) and of tenths of a point once rounded (round(size, 1)).  *)
(* A bbox is a tuple <<x0, y0, x1, y1>> of whole numbers.                  *)
(***************************************************************************)
EXTENDS Integers, Sequences, FiniteSets, TLC

VARIABLES
    listing,        \* os.listdir(input_dir): the directory's entries, in the order returned
    fs,             \* file name -> what fitz.open finds there: a document or "corrupt"
    mpc,            \* main's position: "start", "loop", "body", "done", "raised";
                    \* "call" when extract_outline_from_pdf or a function of it is called directly
    pdf_files,      \* main's pdf_files
    idx,            \* position of the for loop of main in pdf_files (1-based)
    output,         \* the output directory: output path -> the result dumped there
    pdf_path,       \* extract_outline_from_pdf's argument
    pc,             \* extract_outline_from_pdf's position: "idle", "open", "spans", "title",
                    \* "levels", "return", "returned", "raised"
    doc,            \* the opened document
    spans_by_page,  \* page number -> list of spans (only pages that have a span are keys)
    title,          \* extract_title's first result
    title_lines,    \* extract_title's second result
    filtered_spans, \* assign_heading_levels: the spans left after title exclusion
    levels,         \* assign_heading_levels: the value of `level` for each filtered span
    headings,       \* assign_heading_levels: the headings list before deduplication
    outline,        \* assign_heading_levels's result
    result          \* extract_outline_from_pdf's result

vars == <<listing, fs, mpc, pdf_files, idx, output, pdf_path, pc, doc, spans_by_page, title,
          title_lines, filtered_spans, levels, headings, outline, result>>

mainVars == <<listing, fs, mpc, pdf_files, idx, output>>

docVars == <<doc, spans_by_page, title, title_lines, filtered_spans, levels, headings, outline, result>>

(***************************************************************************)
(* Configurable parameters                                                 *)
(***************************************************************************)
BUFFER_SIZE == 10
VERTICAL_TOLERANCE == 5
MIN_HEADING_LEN == 2
MAX_HEADING_CHARS == 120

(***************************************************************************)
(* Sequences                                                               *)
(***************************************************************************)
Range(s) == {s[i] : i \in 1..Len(s)}

Min2(a, b) == IF a <= b THEN a ELSE b

Abs(a) == IF a < 0 THEN -a ELSE a

RECURSIVE Flatten(_)
Flatten(ss) == IF ss = <<>> THEN <<>> ELSE Head(ss) \o Flatten(Tail(ss))

\* the order of Python on two-element tuples of numbers
KeyLess(a, b) == a[1] < b[1] \/ (a[1] = b[1] /\ a[2] < b[2])

\* insertion of the pair <<key, item>> after the last pair whose key is not greater
RECURSIVE InsertByKey(_, _)
InsertByKey(x, r) ==
    IF r = <<>> THEN <<x>>
    ELSE IF KeyLess(x[1], Head(r)[1]) THEN <<x>> \o r
         ELSE <<Head(r)>> \o InsertByKey(x, Tail(r))

RECURSIVE SortPairs(_)
SortPairs(r) ==
    IF r = <<>> THEN <<>> ELSE InsertByKey(r[Len(r)], SortPairs(SubSeq(r, 1, Len(r) - 1)))

\* list.sort(key=...): a stable sort of s, keys[i] being the key of s[i]
SortByKey(s, keys) ==
    LET sorted == SortPairs([i \in 1..Len(s) |-> <<keys[i], s[i]>>])
    IN [i \in 1..Len(s) |-> sorted[i][2]]

(***************************************************************************)
(* Characters and text                                                     *)
(***************************************************************************)
Digits == {"0", "1", "2", "3", "4", "5", "6", "7", "8", "9"}

UpperLetters == {"A", "B", "C", "D", "E", "F", "G", "H", "I", "J", "K", "L", "M",
                 "N", "O", "P", "Q", "R", "S", "T", "U", "V", "W", "X", "Y", "Z"}

LowerLetters == {"a", "b", "c", "d", "e", "f", "g", "h", "i", "j", "k", "l", "m",
                 "n", "o", "p", "q", "r", "s", "t", "u", "v", "w", "x", "y", "z"}

\* U+00C2 (A circumflex), U+00E2 (a circumflex), U+00E9 (e acute): letters
OtherLetters == {"U+00C2", "U+00E2", "U+00E9"}

\* str.strip() and \s
Whitespace == {" ", "\t", "\n"}

\* \w: alphanumeric or underscore
WordChars == UpperLetters \cup LowerLetters \cup OtherLetters \cup Digits \cup {"_"}

\* The characters of the literal of line 22 as the file stores it:
\* . U+00C2 U+00B7 U+00E2 U+20AC U+00A2 - _
FillerChars == {".", "U+00C2", "U+00B7", "U+00E2", "U+20AC", "U+00A2", "-", "_"}

RECURSIVE LStrip(_)
LStrip(t) == IF t # <<>> /\ Head(t) \in Whitespace THEN LStrip(Tail(t)) ELSE t

RECURSIVE RStrip(_)
RStrip(t) ==
    IF t # <<>> /\ t[Len(t)] \in Whitespace THEN RStrip(SubSeq(t, 1, Len(t) - 1)) ELSE t

Strip(t) == RStrip(LStrip(t))

\* unicodedata.normalize("NFC", .) on the modelled alphabet: the one
\* decomposed pair in it, e + U+0301 (combining acute), composes to U+00E9.
NFC(t) ==
    LET composes(i) == i < Len(t) /\ t[i] = "e" /\ t[i + 1] = "U+0301"
        kept == SelectSeq([i \in 1..Len(t) |-> i], LAMBDA i : ~(i > 1 /\ composes(i - 1)))
    IN [k \in 1..Len(kept) |-> IF composes(kept[k]) THEN "U+00E9" ELSE t[kept[k]]]

normalize_text(text) == NFC(Strip(text))

(***************************************************************************)
(* Regular expressions: a pattern is a sequence of items [set, min, max],  *)
(* a character class repeated min..max times; a match is anchored at both  *)
(* ends (^...$ on a text without a trailing newline).                      *)
(***************************************************************************)
Item(set, min, max) == [set |-> set, min |-> min, max |-> max, bounded |-> TRUE]

\* a class repeated min times or more (+ with min = 1, * with min = 0)
AtLeast(set, min) == [set |-> set, min |-> min, max |-> min, bounded |-> FALSE]

Lit(c) == Item({c}, 1, 1)

\* a letter under re.IGNORECASE
SwapCase(c) ==
    CASE c = "P" -> "p" [] c = "a" -> "A" [] c = "g" -> "G" [] c = "e" -> "E"
      [] c = "M" -> "m" [] c = "y" -> "Y" [] c = "V" -> "v" [] c = "r" -> "R"
      [] c = "s" -> "S" [] c = "i" -> "I" [] c = "o" -> "O" [] c = "n" -> "N"
      [] c = "A" -> "a" [] c = "m" -> "M" [] c = "p" -> "P"
      [] OTHER -> c

LitI(c) == Item({c, SwapCase(c)}, 1, 1)

RECURSIVE ReMatch(_, _, _, _)
ReMatch(t, i, re, j) ==
    IF j > Len(re) THEN i > Len(t)
    ELSE \E n \in re[j].min .. (IF re[j].bounded THEN Min2(re[j].max, Len(t) - i + 1)
                                 ELSE Len(t) - i + 1) :
            /\ \A k \in 0..(n - 1) : t[i + k] \in re[j].set
            /\ ReMatch(t, i + n, re, j + 1)

FullMatch(t, re) == ReMatch(t, 1, re, 1)

\* Page\s+\d+
RePage == <<LitI("P"), LitI("a"), LitI("g"), LitI("e"),
            AtLeast(Whitespace, 1), AtLeast(Digits, 1)>>

\* May\s+\d{1,2},\s+\d{4}
ReMay == <<LitI("M"), LitI("a"), LitI("y"), AtLeast(Whitespace, 1),
           Item(Digits, 1, 2), Lit(","), AtLeast(Whitespace, 1), Item(Digits, 4, 4)>>

\* Version\s+\d{4}
ReVersion == <<LitI("V"), LitI("e"), LitI("r"), LitI("s"), LitI("i"), LitI("o"), LitI("n"),
               AtLeast(Whitespace, 1), Item(Digits, 4, 4)>>

\* \d{1,2}:\d{2}\s*  followed by one of AM, PM, a\.m\., p\.m\.
ReClock == <<Item(Digits, 1, 2), Lit(":"), Item(Digits, 2, 2), AtLeast(Whitespace, 0)>>

ReMeridiems == {<<LitI("A"), LitI("M")>>, <<LitI("P"), LitI("M")>>,
                <<LitI("a"), Lit("."), LitI("m"), Lit(".")>>,
                <<LitI("p"), Lit("."), LitI("m"), Lit(".")>>}

\* \d{1,2}/\d{1,2}/\d{4}
ReDate == <<Item(Digits, 1, 2), Lit("/"), Item(Digits, 1, 2), Lit("/"), Item(Digits, 4, 4)>>

\* ^[\W_]+$
OnlySymbols(t) == t # <<>> /\ \A i \in 1..Len(t) : t[i] \notin WordChars \/ t[i] = "_"

is_valid_heading(raw) ==
    LET text == normalize_text(raw) IN
    IF text = <<>> \/ Len(text) < MIN_HEADING_LEN THEN FALSE
    ELSE IF \A i \in 1..Len(text) : text[i] \in FillerChars THEN FALSE
    ELSE IF \E re \in {RePage, ReMay, ReVersion} : FullMatch(Strip(text), re) THEN FALSE
    ELSE IF Len(text) > MAX_HEADING_CHARS THEN FALSE
    ELSE IF \E m \in ReMeridiems : FullMatch(text, ReClock \o m) THEN FALSE
    ELSE IF FullMatch(text, ReDate) THEN FALSE
    ELSE TRUE

(***************************************************************************)
(* Rectangles: a bbox is a tuple <<x0, y0, x1, y1>>                        *)
(***************************************************************************)
Rect(x0, y0, x1, y1) == <<x0, y0, x1, y1>>

\* fitz.Rect.is_empty
IsEmptyRect(r) == r[1] >= r[3] \/ r[2] >= r[4]

\* fitz.Rect.intersects: the two rectangles have a non-empty rectangle in
\* common; never so when one of them is empty.
Intersects(a, b) ==
    /\ ~IsEmptyRect(a)
    /\ ~IsEmptyRect(b)
    /\ a[1] < b[3] /\ b[1] < a[3]
    /\ a[2] < b[4] /\ b[2] < a[4]

\* BufferedBBox without the margin
BufferedBBoxNoMargin(bbox) == bbox

\* lines 47-48
BufferedBBox(bbox) ==
    Rect(bbox[1] - BUFFER_SIZE, bbox[2] - BUFFER_SIZE, bbox[3] + BUFFER_SIZE, bbox[4] + BUFFER_SIZE)

\* lines 44-49: a table without a bbox (the empty tuple here) adds nothing
TableBBoxes(page) ==
    LET tabs == SelectSeq(page.tables, LAMBDA t : t.bbox # <<>>)
    IN [i \in 1..Len(tabs) |-> BufferedBBox(tabs[i].bbox)]

\* round(size, 1), of a size given in hundredths, in tenths.  A size that
\* ends in 5 hundredths rounds by its binary representation; the sizes of
\* the model do not end in 5.
Round1(hundredths) == (hundredths + 5) \div 10

\* flags & 2
IsBold(flags) == (flags \div 2) % 2 = 1

\* lines 66-72
MakeSpan(span, page_num) ==
    [text |-> normalize_text(span.text),
     font_size |-> Round1(span.size),
     is_bold |-> IsBold(span.flags),
     bbox |-> span.bbox,
     page |-> page_num]

\* lines 57-64: whether the raw span is appended
Admitted(span, table_bboxes) ==
    /\ is_valid_heading(normalize_text(span.text))
    /\ ~\E i \in 1..Len(table_bboxes) : Intersects(span.bbox, table_bboxes[i])

\* lines 51-56: the raw spans of the page's text blocks, in order
RawSpans(page) ==
    LET blocks == SelectSeq(page.blocks, LAMBDA b : "lines" \in DOMAIN b /\ b.type # 1)
    IN Flatten([i \in 1..Len(blocks) |-> Flatten(blocks[i].lines)])

PageSpans(page, page_num) ==
    LET tbs == TableBBoxes(page)
        kept == SelectSeq(RawSpans(page), LAMBDA sp : Admitted(sp, tbs))
    IN [i \in 1..Len(kept) |-> MakeSpan(kept[i], page_num)]

\* extract_spans: a defaultdict, so only the pages that got a span are keys
extract_spans(d) ==
    LET keys == {p \in 0..(Len(d) - 1) : PageSpans(d[p + 1], p) # <<>>}
    IN [p \in keys |-> PageSpans(d[p + 1], p)]

(***************************************************************************)
(* extract_title                                                           *)
(***************************************************************************)
\* line 81: spans_page0.sort(key=(-font_size, top)), which sorts the caller's
\* list in place
SortedPage0(spans_page0) ==
    SortByKey(spans_page0,
              [i \in 1..Len(spans_page0) |-> <<-spans_page0[i].font_size, spans_page0[i].bbox[2]>>])

\* line 86: title_spans.sort(key=(top, left))
SortedTopLeft(spans) ==
    SortByKey(spans, [i \in 1..Len(spans) |-> <<spans[i].bbox[2], spans[i].bbox[1]>>])

\* lines 82-86
TitleSpans(spans_page0) ==
    LET sorted == SortedPage0(spans_page0)
        max_size == sorted[1].font_size
    IN SortedTopLeft(SelectSeq(sorted, LAMBDA sp : sp.font_size = max_size))

\* lines 87-99: the loop from span i on, and the append after it
RECURSIVE MergeLines(_, _, _, _)
MergeLines(title_spans, i, lines, current_line) ==
    IF i > Len(title_spans)
    THEN IF Strip(current_line) # <<>> THEN Append(lines, Strip(current_line)) ELSE lines
    ELSE LET top == title_spans[i].bbox[2]
             \* prev_bottom is None before the first span
             break == i > 1 /\ Abs(top - title_spans[i - 1].bbox[4]) > VERTICAL_TOLERANCE
         IN MergeLines(title_spans, i + 1,
                       IF break THEN Append(lines, Strip(current_line)) ELSE lines,
                       (IF break THEN <<>> ELSE current_line) \o <<" ">> \o title_spans[i].text)

\* JoinSpace with a line break between the lines
RECURSIVE JoinNewline(_)
JoinNewline(lines) ==
    IF lines = <<>> THEN <<>>
    ELSE IF Len(lines) = 1 THEN lines[1]
         ELSE lines[1] \o <<"\n">> \o JoinNewline(Tail(lines))

\* " ".join(lines)
RECURSIVE JoinSpace(_)
JoinSpace(lines) ==
    IF lines = <<>> THEN <<>>
    ELSE IF Len(lines) = 1 THEN lines[1]
         ELSE lines[1] \o <<" ">> \o JoinSpace(Tail(lines))

\* line 101
TitleText(title_spans) == Strip(JoinSpace(MergeLines(title_spans, 1, <<>>, <<>>)))

\* line 104
TitleRejected(title_text) ==
    title_text = <<>> \/ Len(title_text) < MIN_HEADING_LEN \/ OnlySymbols(title_text)

(***************************************************************************)
(* assign_heading_levels                                                   *)
(***************************************************************************)
\* lines 111-113: the values of the dict in insertion order, which is the
\* order of the page numbers
RECURSIVE AllSpansFrom(_, _)
AllSpansFrom(sbp, p) ==
    IF \A q \in DOMAIN sbp : q < p THEN <<>>
    ELSE (IF p \in DOMAIN sbp THEN sbp[p] ELSE <<>>) \o AllSpansFrom(sbp, p + 1)

AllSpans(sbp) == AllSpansFrom(sbp, 0)

\* FilteredSpans without the exclusion of line 117
FilteredSpansKeepAll(all_spans, tl) == all_spans

\* FilteredSpans excluding the title spans themselves, not every span with
\* the text of one
FilteredSpansByIdentity(all_spans, tl) == SelectSeq(all_spans, LAMBDA sp : sp \notin Range(tl))

\* lines 116-117
FilteredSpans(all_spans, tl) ==
    LET title_texts == {tl[i].text : i \in 1..Len(tl)}
    IN SelectSeq(all_spans, LAMBDA sp : sp.text \notin title_texts)

\* lines 122-123: the distinct sizes, largest first
RECURSIVE SortedDesc(_)
SortedDesc(set) ==
    IF set = {} THEN <<>>
    ELSE LET m == CHOOSE x \in set : \A y \in set : y <= x
         IN <<m>> \o SortedDesc(set \ {m})

SortedSizes(spans) == SortedDesc({spans[i].font_size : i \in 1..Len(spans)})

\* lines 125-127; sizes are in tenths of a point, so 1 is 10
H1Size(sorted_sizes) == IF Len(sorted_sizes) > 0 THEN sorted_sizes[1] ELSE 0

\* H2Size with the fallback of line 126 left at h1_size
H2SizeNoStep(sorted_sizes) == IF Len(sorted_sizes) > 1 THEN sorted_sizes[2] ELSE H1Size(sorted_sizes)

H2Size(sorted_sizes) == IF Len(sorted_sizes) > 1 THEN sorted_sizes[2] ELSE H1Size(sorted_sizes) - 10

H3Size(sorted_sizes) == IF Len(sorted_sizes) > 2 THEN sorted_sizes[3] ELSE H2Size(sorted_sizes) - 10

\* LevelOf without the test of is_bold at line 132
LevelOfAnyWeight(sp, h1_size, h2_size, h3_size) ==
    IF sp.font_size = h1_size THEN "H1"
    ELSE IF sp.font_size = h2_size THEN "H2"
    ELSE IF sp.font_size = h3_size THEN "H3"
    ELSE "None"

\* lines 131-137
LevelOf(sp, h1_size, h2_size, h3_size) ==
    IF sp.font_size = h1_size /\ sp.is_bold THEN "H1"
    ELSE IF sp.font_size = h2_size THEN "H2"
    ELSE IF sp.font_size = h3_size THEN "H3"
    ELSE "None"

\* the value of level at line 139 for each span of the loop of line 130
Levels(spans) ==
    LET ss == SortedSizes(spans)
    IN [i \in 1..Len(spans) |-> LevelOf(spans[i], H1Size(ss), H2Size(ss), H3Size(ss))]

\* lines 129-144
Headings(spans) ==
    LET lv == Levels(spans)
        idxs == SelectSeq([i \in 1..Len(spans) |-> i],
                          LAMBDA i : lv[i] # "None" /\ is_valid_heading(spans[i].text))
    IN [k \in 1..Len(idxs) |->
            [level |-> lv[idxs[k]], text |-> spans[idxs[k]].text, page |-> spans[idxs[k]].page]]

\* lines 147-153
RECURSIVE UniqueFrom(_, _, _)
UniqueFrom(hs, i, seen) ==
    IF i > Len(hs) THEN <<>>
    ELSE IF hs[i] \notin seen THEN <<hs[i]>> \o UniqueFrom(hs, i + 1, seen \cup {hs[i]})
         ELSE UniqueFrom(hs, i + 1, seen)

\* UniqueHeadings without the test of line 151
UniqueHeadingsKeepAll(hs) == hs

UniqueHeadings(hs) == UniqueFrom(hs, 1, {})

\* line 155
LevelRank(level) == CASE level = "H1" -> 1 [] level = "H2" -> 2 [] level = "H3" -> 3

\* SortHeadings with the key of line 155 cut to the page
SortHeadingsByPage(hs) == SortByKey(hs, [i \in 1..Len(hs) |-> <<hs[i].page, 0>>])

SortHeadings(hs) == SortByKey(hs, [i \in 1..Len(hs) |-> <<hs[i].page, LevelRank(hs[i].level)>>])

(***************************************************************************)
(* extract_outline_from_pdf, one action per call it makes                  *)
(***************************************************************************)
\* line 160, fitz.open returns
OpenDoc ==
    /\ pc = "open"
    /\ fs[pdf_path].ok
    /\ doc' = fs[pdf_path].doc
    /\ pc' = "spans"
    /\ UNCHANGED <<mainVars, pdf_path, spans_by_page, title, title_lines, filtered_spans,
                   levels, headings, outline, result>>

\* line 160, fitz.open raises; nothing between it and main's caller catches
OpenRaises ==
    /\ pc = "open"
    /\ ~fs[pdf_path].ok
    /\ pc' = "raised"
    /\ mpc' = "raised"
    /\ UNCHANGED <<listing, fs, pdf_files, idx, output, pdf_path, docVars>>

\* line 161
ExtractSpans ==
    /\ pc = "spans"
    /\ spans_by_page' = extract_spans(doc)
    /\ pc' = "title"
    /\ UNCHANGED <<mainVars, pdf_path, doc, title, title_lines, filtered_spans, levels,
                   headings, outline, result>>

\* lines 163-164: page0_spans is the list held by spans_by_page when page 0 is
\* a key, so the sort of line 81 reorders spans_by_page[0]
ExtractTitle ==
    /\ pc = "title"
    /\ LET spans_page0 == IF 0 \in DOMAIN spans_by_page THEN spans_by_page[0] ELSE <<>> IN
       IF spans_page0 = <<>>
       THEN /\ title' = <<>>
            /\ title_lines' = <<>>
            /\ UNCHANGED spans_by_page
       ELSE LET title_spans == TitleSpans(spans_page0)
                title_text == TitleText(title_spans)
            IN /\ spans_by_page' = [spans_by_page EXCEPT ![0] = SortedPage0(spans_page0)]
               /\ IF TitleRejected(title_text)
                  THEN title' = <<>> /\ title_lines' = <<>>
                  ELSE title' = title_text /\ title_lines' = title_spans
    /\ pc' = "levels"
    /\ UNCHANGED <<mainVars, pdf_path, doc, filtered_spans, levels, headings, outline, result>>

\* line 165
AssignHeadingLevels ==
    /\ pc = "levels"
    /\ LET fsp == FilteredSpans(AllSpans(spans_by_page), title_lines) IN
       /\ filtered_spans' = fsp
       /\ IF fsp = <<>>
          THEN levels' = <<>> /\ headings' = <<>> /\ outline' = <<>>
          ELSE /\ levels' = Levels(fsp)
               /\ headings' = Headings(fsp)
               /\ outline' = SortHeadings(UniqueHeadings(Headings(fsp)))
    /\ pc' = "return"
    /\ UNCHANGED <<mainVars, pdf_path, doc, spans_by_page, title, title_lines, result>>

\* lines 167-170
Return ==
    /\ pc = "return"
    /\ result' = [title |-> title, outline |-> outline]
    /\ pc' = "returned"
    /\ UNCHANGED <<mainVars, pdf_path, doc, spans_by_page, title, title_lines,
                   filtered_spans, levels, headings, outline>>

NextDoc == OpenDoc \/ OpenRaises \/ ExtractSpans \/ ExtractTitle \/ AssignHeadingLevels \/ Return

(***************************************************************************)
(* main.  A file name is a record [stem, ext]; the stems hold no ".pdf".   *)
(* The model starts at main's first line: the guard of line 196 reads      *)
(* _name_, which is not defined, so the file run as a script raises        *)
(* NameError there and main has to be called by other means.               *)
(***************************************************************************)
\* f.lower().endswith(".pdf")
IsPdfName(f) == f.ext \in {".pdf", ".PDF", ".Pdf"}

\* line 178
PdfFiles(entries) == SelectSeq(entries, IsPdfName)

\* line 186: pdf_file.replace(".pdf", ".json"), which finds only a lower-case ".pdf"
OutputPath(f) == IF f.ext = ".pdf" THEN [stem |-> f.stem, ext |-> ".json"] ELSE f

\* lines 178-182
MainNoFiles ==
    /\ mpc = "start"
    /\ PdfFiles(listing) = <<>>
    /\ pdf_files' = <<>>
    /\ mpc' = "done"
    /\ UNCHANGED <<listing, fs, idx, output, pdf_path, pc, docVars>>

\* lines 178-184
MainStart ==
    /\ mpc = "start"
    /\ PdfFiles(listing) # <<>>
    /\ pdf_files' = PdfFiles(listing)
    /\ idx' = 1
    /\ mpc' = "loop"
    /\ UNCHANGED <<listing, fs, output, pdf_path, pc, docVars>>

\* lines 184-189: the next file, up to the call
LoopBody ==
    /\ mpc = "loop"
    /\ idx <= Len(pdf_files)
    /\ pdf_path' = pdf_files[idx]
    /\ pc' = "open"
    /\ mpc' = "body"
    \* a new call: its locals hold nothing yet
    /\ doc' = <<>>
    /\ spans_by_page' = <<>>
    /\ title' = <<>>
    /\ title_lines' = <<>>
    /\ filtered_spans' = <<>>
    /\ levels' = <<>>
    /\ headings' = <<>>
    /\ outline' = <<>>
    /\ UNCHANGED <<listing, fs, pdf_files, idx, output, result>>

\* lines 189-194: the call has returned
WriteOutput ==
    /\ mpc = "body"
    /\ pc = "returned"
    /\ output' = (OutputPath(pdf_files[idx]) :> result) @@ output
    /\ idx' = idx + 1
    /\ pc' = "idle"
    /\ mpc' = "loop"
    /\ UNCHANGED <<listing, fs, pdf_files, pdf_path, docVars>>

\* line 184: the list is exhausted
LoopEnd ==
    /\ mpc = "loop"
    /\ idx > Len(pdf_files)
    /\ mpc' = "done"
    /\ UNCHANGED <<listing, fs, pdf_files, idx, output, pdf_path, pc, docVars>>

NextMain == MainNoFiles \/ MainStart \/ LoopBody \/ WriteOutput \/ LoopEnd \/ NextDoc

(***************************************************************************)
(* Inputs                                                                  *)
(***************************************************************************)
MaxSpans == 4

T_Ab == <<"A", "b">>
T_Cd == <<"C", "d">>
T_Bang == <<"!", "!">>

NoFile == [stem |-> "", ext |-> ""]

\* nothing of main is running: a function is called directly
DirectCall ==
    /\ mpc = "call"
    /\ listing = <<>>
    /\ fs = <<>>
    /\ pdf_files = <<>>
    /\ idx = 1
    /\ output = <<>>

NothingExtracted ==
    /\ doc = <<>>
    /\ title = <<>>
    /\ filtered_spans = <<>>
    /\ levels = <<>>
    /\ headings = <<>>
    /\ outline = <<>>
    /\ result = [title |-> <<>>, outline |-> <<>>]

\* a dict of lists from a list of spans in page order
ByPage(spans) ==
    [p \in {spans[i].page : i \in 1..Len(spans)} |-> SelectSeq(spans, LAMBDA sp : sp.page = p)]

(***************************************************************************)
(* assign_heading_levels on its own: up to MaxSpans valid spans, all on    *)
(* page 0 or the last one on page 1, of four sizes and two texts, and a    *)
(* title span list that is empty or names one of the texts.  At the top    *)
(* size each text comes bold and not bold; below it one text is bold and   *)
(* the other is not, and the smallest size comes bold only.                *)
(***************************************************************************)
LevelSizes == {100, 110, 120, 130}

LevelAttrs ==
    {a \in [text : {T_Ab, T_Cd}, font_size : LevelSizes, is_bold : BOOLEAN] :
        /\ a.font_size = 130 \/ (a.is_bold <=> a.text = T_Ab)
        /\ a.font_size = 100 => a.is_bold}

LevelSpan(a, page_num) ==
    [text |-> a.text, font_size |-> a.font_size, is_bold |-> a.is_bold,
     bbox |-> Rect(0, 10, 50, 20), page |-> page_num]

InitLevels ==
    /\ DirectCall
    /\ NothingExtracted
    /\ pdf_path = NoFile
    /\ pc = "levels"
    /\ \E n \in 0..MaxSpans : \E k \in {n - 1, n} \cap (0..n) : \E attrs \in [1..n -> LevelAttrs] :
          spans_by_page = ByPage([i \in 1..n |-> LevelSpan(attrs[i], IF i <= k THEN 0 ELSE 1)])
    /\ title_lines \in {<<>>, <<LevelSpan([text |-> T_Ab, font_size |-> 130, is_bold |-> TRUE], 0)>>}

SpecLevels == InitLevels /\ [][AssignHeadingLevels]_vars

(***************************************************************************)
(* extract_title on its own: no page 0, or up to MaxTitleSpans valid spans *)
(* on page 0, of three texts (one of symbols only), two sizes and three    *)
(* boxes: two on one line (tops equal, 4 below the first one's bottom) and *)
(* one on a line further down.                                             *)
(***************************************************************************)
MaxTitleSpans == 3

TitleBoxes == {Rect(0, 10, 40, 14), Rect(50, 10, 90, 18), Rect(0, 30, 40, 38)}

TitlePool ==
    [text : {T_Ab, T_Cd, T_Bang}, font_size : {120, 200}, is_bold : {TRUE},
     bbox : TitleBoxes, page : {0}]

InitTitle ==
    /\ DirectCall
    /\ NothingExtracted
    /\ pdf_path = NoFile
    /\ pc = "title"
    /\ title_lines = <<>>
    /\ \E n \in 0..MaxTitleSpans : \E spans \in [1..n -> TitlePool] :
          spans_by_page = ByPage(spans)

SpecTitle == InitTitle /\ [][ExtractTitle]_vars

(***************************************************************************)
(* Properties of extract_title (under SpecTitle)                           *)
(***************************************************************************)
Count(s, x) == Cardinality({i \in 1..Len(s) : s[i] = x})

SameBag(s, t) == \A x \in Range(s) \cup Range(t) : Count(s, x) = Count(t, x)

\* the texts of the spans with one space between them
TextsJoined(spans) ==
    IF spans = <<>> THEN <<>>
    ELSE spans[1].text \o Flatten([i \in 1..(Len(spans) - 1) |-> <<" ">> \o spans[i + 1].text])

Page0 == IF 0 \in DOMAIN spans_by_page THEN spans_by_page[0] ELSE <<>>

MaxSizeSpans(spans) ==
    SelectSeq(spans, LAMBDA sp : \A j \in 1..Len(spans) : spans[j].font_size <= sp.font_size)

\* C7: the title spans are exactly the page-0 spans of the maximum size, in
\* the order of (top, left), and the title is their texts joined by single
\* spaces, whatever the gaps between them; the result is empty when there is
\* no span, or the joined text is shorter than 2 or has no word character.
C7_TitleIsJoin ==
    pc = "levels" =>
        LET cands == MaxSizeSpans(Page0)
            joined == TextsJoined(cands)
        IN IF Page0 = <<>> \/ Len(joined) < 2
              \/ \A i \in 1..Len(joined) : joined[i] \notin WordChars \ {"_"}
           THEN title = <<>> /\ title_lines = <<>>
           ELSE /\ SameBag(title_lines, cands)
                /\ \A i \in 1..(Len(title_lines) - 1) :
                      \/ title_lines[i].bbox[2] < title_lines[i + 1].bbox[2]
                      \/ /\ title_lines[i].bbox[2] = title_lines[i + 1].bbox[2]
                         /\ title_lines[i].bbox[1] <= title_lines[i + 1].bbox[1]
                /\ title = TextsJoined(title_lines)

\* C7's case: three title spans given out of order, two on one line and one
\* after a gap larger than the tolerance.
C7_Witness ==
    /\ pc = "levels"
    /\ Len(title_lines) = 3
    /\ Len(MergeLines(title_lines, 1, <<>>, <<>>)) = 2
    /\ title_lines[1].bbox[2] = title_lines[2].bbox[2]
    /\ title # <<>>

(***************************************************************************)
(* Properties of assign_heading_levels (under SpecLevels)                  *)
(***************************************************************************)
TitleTexts == {title_lines[i].text : i \in 1..Len(title_lines)}

\* 1 for the largest of the distinct sizes of spans, 2 for the next one, ...
DistinctSizes(spans) == {spans[j].font_size : j \in 1..Len(spans)}

LargerSizes(size, spans) == {z \in DistinctSizes(spans) : z > size}

\* the level the ranking rule gives a span among spans
RuleLevel(sp, spans) ==
    LET rank == 1 + Cardinality(LargerSizes(sp.font_size, spans)) IN
    CASE rank = 1 /\ sp.is_bold -> "H1"
      [] rank = 2 -> "H2"
      [] rank = 3 -> "H3"
      [] OTHER -> "None"

OutlineLevels == {outline[i].level : i \in 1..Len(outline)}

\* C2: once the spans whose text is a title span's text are removed, a
\* remaining span is given H1 exactly when its size is the largest remaining
\* distinct size and it is bold, H2 exactly when its size is the second
\* largest, H3 exactly when it is the third largest, and no level otherwise;
\* the headings are the labelled spans, in order.
C2_LevelByRank ==
    pc = "return" =>
        LET remaining == SelectSeq(AllSpans(spans_by_page), LAMBDA sp : sp.text \notin TitleTexts)
            labelled == SelectSeq(remaining, LAMBDA sp : RuleLevel(sp, remaining) # "None")
        IN /\ filtered_spans = remaining
           /\ Len(levels) = Len(remaining)
           /\ \A i \in 1..Len(remaining) :
                /\ levels[i] = "H1" <=>
                      /\ LargerSizes(remaining[i].font_size, remaining) = {}
                      /\ remaining[i].is_bold
                /\ levels[i] = "H2" <=>
                      Cardinality(LargerSizes(remaining[i].font_size, remaining)) = 1
                /\ levels[i] = "H3" <=>
                      Cardinality(LargerSizes(remaining[i].font_size, remaining)) = 2
                /\ levels[i] \in {"H1", "H2", "H3", "None"}
           /\ headings = [k \in 1..Len(labelled) |->
                            [level |-> RuleLevel(labelled[k], remaining),
                             text |-> labelled[k].text, page |-> labelled[k].page]]

\* C2's case: the remaining spans get H1, H2, H3 and no level, one of the
\* unlabelled ones being a non-bold span of the largest size.
C2_Witness ==
    /\ pc = "return"
    /\ title_lines # <<>>
    /\ {"H1", "H2", "H3"} \subseteq {levels[i] : i \in 1..Len(levels)}
    /\ \E i, j \in 1..Len(filtered_spans) :
          /\ levels[i] = "H1" /\ levels[j] = "None"
          /\ filtered_spans[i].font_size = filtered_spans[j].font_size

\* C3: no two headings of the outline are the same (level, text, page), and
\* every heading produced is in the outline.
C3_NoDuplicates ==
    pc = "return" =>
        /\ \A i, j \in 1..Len(outline) : i # j => outline[i] # outline[j]
        /\ Range(outline) = Range(headings)

\* C3's case: two spans gave the same triple, and two headings that differ
\* only in the page are both in the outline.
C3_Witness ==
    /\ pc = "return"
    /\ Len(headings) > Len(outline)
    /\ \E i, j \in 1..Len(outline) :
          /\ outline[i].text = outline[j].text
          /\ outline[i].level = outline[j].level
          /\ outline[i].page # outline[j].page

\* C4: the outline is ordered by page and, within a page, by level rank.
C4_Ordered ==
    pc = "return" =>
        \A i \in 1..(Len(outline) - 1) :
            \/ outline[i].page < outline[i + 1].page
            \/ /\ outline[i].page = outline[i + 1].page
               /\ LevelRank(outline[i].level) <= LevelRank(outline[i + 1].level)

\* C4's case: the sort moved a heading, on an outline of three headings or more
\* over two pages.
C4_Witness ==
    /\ pc = "return"
    /\ Len(outline) >= 3
    /\ outline # UniqueHeadings(headings)
    /\ \E i, j \in 1..Len(outline) : outline[i].page # outline[j].page

\* C9: with one distinct size left after title exclusion the outline has no
\* H2 and no H3, and with two it has no H3: a fallback threshold labels nothing.
C9_FallbackLabelsNothing ==
    pc = "return" =>
        /\ Cardinality(DistinctSizes(filtered_spans)) = 1 => OutlineLevels \subseteq {"H1"}
        /\ Cardinality(DistinctSizes(filtered_spans)) = 2 => "H3" \notin OutlineLevels

\* C9's case: one distinct size is left, on a bold and a non-bold span, with a
\* real size exactly one point below it excluded with the title.
C9_Witness ==
    /\ pc = "return"
    /\ Cardinality(DistinctSizes(filtered_spans)) = 1
    /\ \E i, j \in 1..Len(filtered_spans) :
          filtered_spans[i].is_bold /\ ~filtered_spans[j].is_bold
    /\ \E sp \in Range(AllSpans(spans_by_page)) :
          sp.font_size = filtered_spans[1].font_size - 10
    /\ outline # <<>>

(***************************************************************************)
(* extract_outline_from_pdf on one file: a file that does not open, or a   *)
(* document of up to MaxPages pages without tables.  Page 0 holds up to    *)
(* MaxFrags fragments and each later page at most one.  A page is laid out *)
(* as an image block and a text block, whose first line holds the first    *)
(* fragment and whose second line holds the others.                        *)
(***************************************************************************)
MaxPages == 2

MaxFrags == 3

T_Ef == <<"E", "f">>
T_Gh == <<"G", "h">>
T_SpaceAb == <<" ", "A", "b">>
T_Dashes == <<"-", "-">>
T_TitleText == <<"T", "i", "t", "l", "e", " ", "T", "e", "x", "t">>
T_SectionA == <<"S", "e", "c", "t", "i", "o", "n", " ", "A">>
T_SubNote == <<"s", "u", "b", " ", "n", "o", "t", "e">>

Frag(text, size, flags, bbox) == [text |-> text, size |-> size, flags |-> flags, bbox |-> bbox]

Layout(frags, tables) ==
    [blocks |-> <<[type |-> 1],
                  [type |-> 0, lines |-> IF frags = <<>> THEN <<>>
                                         ELSE <<<<Head(frags)>>, Tail(frags)>>]>>,
     tables |-> tables]

\* sizes in hundredths: 2004 rounds to 20.0, 1196 and 1200 to 12.0
Page0Pool ==
    {Frag(T_SpaceAb, 2004, 2, Rect(0, 10, 60, 30)),
     Frag(T_SpaceAb, 1196, 4, Rect(0, 40, 60, 52)),
     Frag(T_Cd, 1196, 2, Rect(0, 40, 60, 52)),
     Frag(T_Cd, 2004, 4, Rect(0, 25, 60, 45)),
     Frag(T_Ef, 1200, 2, Rect(0, 10, 60, 22)),
     Frag(T_Bang, 2004, 2, Rect(0, 40, 60, 60)),
     Frag(T_Dashes, 2004, 2, Rect(0, 10, 60, 30))}

LaterPool ==
    {Frag(T_SpaceAb, 1196, 2, Rect(0, 10, 60, 22)),
     Frag(T_Cd, 2004, 4, Rect(0, 10, 60, 30)),
     Frag(T_Gh, 3000, 2, Rect(0, 10, 60, 40))}

SeqsUpTo(pool, n) == UNION {[1..k -> pool] : k \in 0..n}

\* page 0 from the fragments f0, then the pages of later
PagedDoc(f0, later) == <<Layout(f0, <<>>)>> \o [i \in 1..Len(later) |-> Layout(later[i], <<>>)]

\* the end-to-end example: "Title Text" 30 bold, "Section A" 20 bold, "sub note" 12
DocExample ==
    <<Layout(<<Frag(T_TitleText, 3000, 2, Rect(0, 10, 200, 40)),
               Frag(T_SectionA, 2000, 2, Rect(0, 60, 150, 80)),
               Frag(T_SubNote, 1200, 0, Rect(0, 90, 100, 102))>>, <<>>)>>

Corrupt == [ok |-> FALSE, doc |-> <<>>]

Openable(d) == [ok |-> TRUE, doc |-> d]

TheFile == [stem |-> "a", ext |-> ".pdf"]

InitDoc ==
    /\ mpc = "call"
    /\ listing = <<>>
    /\ pdf_files = <<>>
    /\ idx = 1
    /\ output = <<>>
    /\ NothingExtracted
    /\ spans_by_page = <<>>
    /\ title_lines = <<>>
    /\ pdf_path = TheFile
    /\ pc = "open"
    /\ \/ fs = (TheFile :> Corrupt)
       \/ fs = (TheFile :> Openable(<<>>))
       \/ fs = (TheFile :> Openable(DocExample))
       \/ \E k \in 1..MaxPages :
             \E f0 \in SeqsUpTo(Page0Pool, MaxFrags) :
                \E later \in [1..(k - 1) -> SeqsUpTo(LaterPool, 1)] :
                   fs = (TheFile :> Openable(PagedDoc(f0, later)))

SpecDoc == InitDoc /\ [][NextDoc]_vars

(***************************************************************************)
(* Properties of extract_outline_from_pdf (under SpecDoc)                  *)
(***************************************************************************)
Heading(level, text, page) == [level |-> level, text |-> text, page |-> page]

\* C1 as stated: the example gives the title "Title Text" and the one
\* heading (H1, "Section A", 0); "sub note" gets no level.
C1_ExampleOneHeading ==
    (pc = "returned" /\ doc = DocExample) =>
        result = [title |-> T_TitleText, outline |-> <<Heading("H1", T_SectionA, 0)>>]

\* C1 amended: the example gives the title "Title Text" and two headings,
\* (H1, "Section A", 0) then (H2, "sub note", 0): 12 is the second largest of
\* the sizes left once the title is excluded.
C1_ExampleTwoHeadings ==
    (pc = "returned" /\ doc = DocExample) =>
        result = [title |-> T_TitleText,
                  outline |-> <<Heading("H1", T_SectionA, 0), Heading("H2", T_SubNote, 0)>>]

\* C1's case: the example has been run to its result.
C1_Witness == pc = "returned" /\ doc = DocExample /\ Len(filtered_spans) = 2

\* C5: no heading of the outline has the text of a title span, on any page;
\* with the empty title result there are no title spans and every span is
\* considered.
C5_NoTitleTextInOutline ==
    pc \in {"return", "returned"} =>
        /\ \A i \in 1..Len(outline) : outline[i].text \notin TitleTexts
        /\ title = <<>> => (title_lines = <<>> /\ filtered_spans = AllSpans(spans_by_page))

\* C5's case: a span of a later page has the text of a title span, and other
\* spans made it to the outline.
C5_Witness ==
    /\ pc = "returned"
    /\ title_lines # <<>>
    /\ outline # <<>>
    /\ \E p \in DOMAIN spans_by_page : p > 0 /\ \E sp \in Range(spans_by_page[p]) : sp.text \in TitleTexts

\* C10: title extraction leaves the page-0 spans as extract_spans produced
\* them, and the outline is the one level assignment gives on the spans in
\* source order (headings of one page and level in the order of first
\* occurrence).
C10_SourceOrderKept ==
    /\ pc \in {"levels", "return", "returned"} => spans_by_page = extract_spans(doc)
    /\ pc \in {"return", "returned"} =>
          outline = SortHeadings(UniqueHeadings(Headings(
                        FilteredSpans(AllSpans(extract_spans(doc)), title_lines))))

(***************************************************************************)
(* extract_outline_from_pdf on documents with tables: page 0 holds up to   *)
(* MaxTableFrags fragments, of two texts, large and bold or small and not  *)
(* bold, in five boxes around a table at (30,30)-(50,50): inside it,       *)
(* inside its margin only, across the margin's edge, touching the margin's *)
(* edge from outside, and away from it.  The page has no table, that       *)
(* table, or a table without a bbox and a second table; a second page, if  *)
(* any, has the first table and a fragment that would lie inside it on     *)
(* page 0, or no table and a fragment where the table would be.            *)
(***************************************************************************)
MaxTableFrags == 2

Table1 == [bbox |-> Rect(30, 30, 50, 50)]
Table2 == [bbox |-> Rect(75, 65, 95, 85)]
TableNoBBox == [bbox |-> <<>>]

BoxInside == Rect(32, 32, 48, 40)
BoxInMargin == Rect(52, 32, 58, 40)
BoxAcrossEdge == Rect(55, 10, 75, 25)
BoxTouching == Rect(60, 30, 90, 40)
BoxAway == Rect(70, 70, 100, 80)

TableBoxes == {BoxInside, BoxInMargin, BoxAcrossEdge, BoxTouching, BoxAway}

TablePool ==
    {Frag(t, st[1], st[2], b) : t \in {T_Ab, T_Cd}, st \in {<<2004, 2>>, <<1196, 4>>}, b \in TableBoxes}

TableSets == {<<>>, <<Table1>>, <<TableNoBBox, Table2>>}

SecondPages ==
    {<<>>,
     <<Layout(<<Frag(T_Ef, 1196, 2, BoxAway)>>, <<Table1>>)>>,
     <<Layout(<<Frag(T_Ef, 3000, 2, BoxInside)>>, <<>>)>>}

InitTables ==
    /\ mpc = "call"
    /\ listing = <<>>
    /\ pdf_files = <<>>
    /\ idx = 1
    /\ output = <<>>
    /\ NothingExtracted
    /\ spans_by_page = <<>>
    /\ title_lines = <<>>
    /\ pdf_path = TheFile
    /\ pc = "open"
    /\ \/ fs = (TheFile :> Corrupt)
       \/ \E f0 \in SeqsUpTo(TablePool, MaxTableFrags) : \E tabs \in TableSets :
             \E second \in SecondPages :
                fs = (TheFile :> Openable(<<Layout(f0, tabs)>> \o second))

SpecTables == InitTables /\ [][NextDoc]_vars

(***************************************************************************)
(* Properties of the table filter (under SpecTables)                       *)
(***************************************************************************)
\* the unit squares a rectangle covers
Cells(r) == (r[1]..(r[3] - 1)) \X (r[2]..(r[4] - 1))

\* the box shares a unit square with a table bbox of the page grown by 10
InTableZone(bbox, page) ==
    \E i \in 1..Len(page.tables) :
        LET tb == page.tables[i].bbox IN
        /\ tb # <<>>
        /\ Cells(bbox) \cap Cells(<<tb[1] - 10, tb[2] - 10, tb[3] + 10, tb[4] + 10>>) # {}

\* the valid fragments of page p of the document that lie in no table zone
FreeFrags(p) ==
    SelectSeq(RawSpans(doc[p + 1]),
              LAMBDA f : is_valid_heading(f.text) /\ ~InTableZone(f.bbox, doc[p + 1]))

TextAndBox(sp) == <<sp.text, sp.bbox>>

\* C6: a fragment whose box shares area with a table bbox of its page grown
\* by 10 is no span, no title span and behind no heading; a valid fragment
\* whose box shares no area with any of them is a span.
C6_TableZoneExcluded ==
    pc \in {"title", "levels", "return", "returned"} =>
        /\ \A p \in 0..(Len(doc) - 1) :
              LET free == FreeFrags(p) IN
              IF free = <<>> THEN p \notin DOMAIN spans_by_page
              ELSE /\ p \in DOMAIN spans_by_page
                   /\ SameBag([i \in 1..Len(spans_by_page[p]) |-> TextAndBox(spans_by_page[p][i])],
                              [i \in 1..Len(free) |-> <<normalize_text(free[i].text), free[i].bbox>>])
        /\ DOMAIN spans_by_page \subseteq 0..(Len(doc) - 1)
        /\ \A i \in 1..Len(title_lines) : ~InTableZone(title_lines[i].bbox, doc[1])
        /\ title = TextsJoined(title_lines)
        /\ \A i \in 1..Len(outline) :
              \E f \in Range(FreeFrags(outline[i].page)) : normalize_text(f.text) = outline[i].text

\* C6's case: on a page with a table, the largest fragment lies in the
\* table's margin only and is dropped, and a fragment touching the margin's
\* edge is kept and is the title.
C6_Witness ==
    /\ pc = "returned"
    /\ doc[1].tables = <<Table1>>
    /\ \E f \in Range(RawSpans(doc[1])) :
          /\ f.bbox = BoxInMargin /\ f.size = 2004
          /\ normalize_text(f.text) # title
    /\ Len(title_lines) = 1
    /\ title_lines[1].bbox = BoxTouching
    /\ title_lines[1].font_size = 120

(***************************************************************************)
(* main on a directory of up to MaxFiles entries with distinct names, each *)
(* a file that does not open, the example document or a document without   *)
(* pages.                                                                  *)
(***************************************************************************)
MaxFiles == 3

FileNames ==
    {[stem |-> "a", ext |-> ".pdf"], [stem |-> "b", ext |-> ".PDF"],
     [stem |-> "c", ext |-> ".pdf"], [stem |-> "notes", ext |-> ".txt"]}

FileContents == {Corrupt, Openable(DocExample), Openable(<<>>)}

InitMain ==
    /\ mpc = "start"
    /\ pc = "idle"
    /\ pdf_files = <<>>
    /\ idx = 1
    /\ output = <<>>
    /\ pdf_path = NoFile
    /\ NothingExtracted
    /\ spans_by_page = <<>>
    /\ title_lines = <<>>
    /\ \E n \in 0..MaxFiles : \E names \in [1..n -> FileNames] :
          /\ \A i, j \in 1..n : i # j => names[i] # names[j]
          /\ listing = names
          /\ fs \in [Range(names) -> FileContents]

SpecMain == InitMain /\ [][NextMain]_vars

(***************************************************************************)
(* Properties of main (under SpecMain)                                     *)
(***************************************************************************)
\* C8: when main has ended, every input document that can be processed has
\* its output file, whichever documents failed.
C8_BatchSurvivesFailure ==
    mpc \in {"done", "raised"} =>
        \A f \in Range(PdfFiles(listing)) : fs[f].ok => OutputPath(f) \in DOMAIN output

====
